---- MODULE Spec2Model ----
(***************************************************************************)
(* Model of MD-TO-PDF.py: the MarkdownToPdfConverter class and the         *)
(* __main__ block.  One program invocation constructs the converter,      *)
(* calls convert_all once, waits for a key press and exits.  The file     *)
(* system (input directory, output directory, temp_html directory, the    *)
(* wkhtmltopdf executable) outlives an invocation; the Python objects do   *)
(* not.                                                                    *)
(*                                                                         *)
(* The two external converters and the file system are the environment.   *)
(* What they do for one input is fixed per input when the model starts    *)
(* (conv[i], unlink_ok[i]) so that two invocations meet the same          *)
(* environment.  shutil.rmtree and the mkdir calls are taken to succeed.  *)
(***************************************************************************)
EXTENDS Naturals, Integers, Sequences, FiniteSets, TLC

MaxFiles == 2      \* most *.md files in the input directory
MaxRuns  == 2      \* program invocations in a row
MaxCalls == 2      \* convert_all calls on one converter object (SpecApi)

VARIABLES
    \* ---- file system and environment (persist across invocations)
    input_dir_exists,    \* E:\md exists
    wkhtmltopdf_exists,  \* the executable of line 30 exists
    conv,                \* conv[i]: what the converters do with input i
    unlink_ok,           \* unlink_ok[i]: deleting i's temp html succeeds
    output_dir_exists,   \* E:\pdf exists
    pdf,                 \* pdf[k]: state of the output document named k
    temp_dir_exists,     \* temp_html exists
    temp_html,           \* stems of the html files inside temp_html
    \* ---- program state of the current invocation
    pc,                  \* position of the single thread
    md_files,            \* list(self.input_dir.glob('*.md'))
    idx,                 \* 1-based position of the for loop in md_files
    success_count,
    fail_count,
    ret,                 \* return value convert_file has decided on
    exc,                 \* exception in flight
    \* ---- observations
    run,                 \* number of the current invocation
    call,                \* number of the convert_all call on this object
    log,                 \* inputs logged by line 141, current invocation
    stage,               \* stage[i]: how far input i got, current call
    counted,             \* counted[i]: counter input i incremented
    console,             \* messages printed by the current invocation
    key_waits,           \* input() calls of the current invocation
    exe_checks,          \* executions of line 31, current invocation
    history              \* per finished invocation: console and outputs

vars == <<input_dir_exists, wkhtmltopdf_exists, conv, unlink_ok,
          output_dir_exists, pdf, temp_dir_exists, temp_html,
          pc, md_files, idx, success_count, fail_count, ret, exc,
          run, call, log, stage, counted, console, key_waits,
          exe_checks, history>>

env_vars == <<input_dir_exists, wkhtmltopdf_exists, conv, unlink_ok>>

\* what the two converters do with one input
Behaviours == {"render_error",    \* convert_md_to_html raises
               "engine_error",    \* pdfkit.from_file raises, writes nothing
               "engine_partial",  \* pdfkit.from_file raises, pdf written
               "no_output",       \* returns, writes nothing
               "empty_output",    \* returns, writes a zero-length pdf
               "ok"}              \* returns, writes a non-empty pdf

Stems == 1..MaxFiles
OutNames == 1..(MaxFiles * MaxRuns)

Msg(m, a, b) == [msg |-> m, a |-> a, b |-> b]

NoStage == [i \in Stems |-> "none"]

\* pdf_file = self.output_dir / f"{md_file.stem}.pdf"
PdfNameVersioned(stem) == stem + MaxFiles * (run - 1)
PdfName(stem) == stem

\* os.path.exists(self.wkhtmltopdf_path)
ExeFoundAlways(e) == TRUE
ExeFound(e) == e

\* exception raised by convert_all when the input directory is missing
MissingDirRaises == "FileNotFoundError"
MissingDirExc == "none"

\* list(self.input_dir.glob('*.md')): inputs 1..n in scan order
Glob == [i \in 1..Len(conv) |-> i]

\* what pdfkit.from_file leaves at the destination
EngineWrites(b, old) ==
    CASE b = "engine_partial" -> "nonempty"
      [] b = "empty_output"   -> "empty"
      [] b = "ok"             -> "nonempty"
      [] OTHER                -> old

EngineRaises(b) == b \in {"engine_error", "engine_partial"}

\* not (not pdf_file.exists() or pdf_file.stat().st_size == 0)
VerifiedExistsOnly(o) == o # "absent"
Verified(o) == o = "nonempty"

\* finally: if temp_html_file.exists()
CleanupOnSuccessOnly(stem) == ret = "True" /\ stem \in temp_html
CleanupNeeded(stem) == stem \in temp_html

\* if self.convert_file(md_file): success_count += 1 else: fail_count += 1
SuccessAfter(r, s) == IF r = "True" THEN s + 1 ELSE s
FailAfterDropped(r, f) == f
FailAfter(r, f) == IF r = "True" THEN f ELSE f + 1

PdfNames == {k \in OutNames : pdf[k] # "absent"}

Init ==
    /\ input_dir_exists \in BOOLEAN
    /\ wkhtmltopdf_exists \in BOOLEAN
    /\ \E n \in 0..MaxFiles :
         /\ (~input_dir_exists) => n = 0
         /\ conv \in [1..n -> Behaviours]
         /\ unlink_ok \in [1..n -> BOOLEAN]
    /\ output_dir_exists \in BOOLEAN
    /\ \E stale \in SUBSET Stems :
         /\ (~output_dir_exists) => stale = {}
         /\ pdf = [k \in OutNames |-> IF k \in stale THEN "nonempty"
                                                    ELSE "absent"]
    /\ temp_dir_exists = FALSE
    /\ temp_html = {}
    /\ pc = "main"
    /\ md_files = <<>>
    /\ idx = 1
    /\ success_count = 0
    /\ fail_count = 0
    /\ ret = "none"
    /\ exc = "none"
    /\ run = 1
    /\ call = 0
    /\ log = <<>>
    /\ stage = NoStage
    /\ counted = NoStage
    /\ console = <<>>
    /\ key_waits = 0
    /\ exe_checks = 0
    /\ history = <<>>

\* __init__ (lines 10-49), called from line 211
Construct ==
    /\ pc = "main"
    /\ output_dir_exists' = TRUE
    /\ temp_dir_exists' = TRUE
    /\ exe_checks' = exe_checks + 1
    /\ IF ExeFound(wkhtmltopdf_exists)
          THEN /\ pc' = "convert_all"
               /\ call' = 1
               /\ UNCHANGED <<console, exc>>
          ELSE /\ pc' = "main_except"
               /\ exc' = "FileNotFoundError"
               /\ console' = Append(console, Msg("exe_missing", 0, 0))
               /\ UNCHANGED call
    /\ UNCHANGED <<env_vars, pdf, temp_html, md_files, idx, success_count,
                   fail_count, ret, run, log, stage, counted, key_waits,
                   history>>

\* convert_all up to the loop (lines 177-190)
ConvertAllBegin ==
    /\ pc = "convert_all"
    /\ stage' = NoStage
    /\ counted' = NoStage
    /\ IF ~input_dir_exists
          THEN /\ console' = Append(console, Msg("no_input_dir", 0, 0))
               /\ exc' = MissingDirExc
               /\ pc' = "finally"
               /\ UNCHANGED <<md_files, idx, success_count, fail_count>>
          ELSE /\ md_files' = Glob
               /\ exc' = exc
               /\ IF Glob = <<>>
                     THEN /\ console' = Append(console, Msg("no_md", 0, 0))
                          /\ pc' = "finally"
                          /\ UNCHANGED <<idx, success_count, fail_count>>
                     ELSE /\ console' = Append(console,
                                               Msg("found", Len(Glob), 0))
                          /\ success_count' = 0
                          /\ fail_count' = 0
                          /\ idx' = 1
                          /\ pc' = "loop"
    /\ UNCHANGED <<env_vars, output_dir_exists, pdf, temp_dir_exists,
                   temp_html, ret, run, call, log, key_waits, exe_checks,
                   history>>

\* for md_file in md_files: entry of convert_file (lines 192-193, 136-141)
LoopNext ==
    /\ pc = "loop"
    /\ idx <= Len(md_files)
    /\ log' = Append(log, md_files[idx])
    /\ ret' = "none"
    /\ pc' = "render"
    /\ UNCHANGED <<env_vars, output_dir_exists, pdf, temp_dir_exists,
                   temp_html, md_files, idx, success_count, fail_count, exc,
                   run, call, stage, counted, console, key_waits, exe_checks,
                   history>>

\* html_content = self.convert_md_to_html(md_file) (line 144, 51-129),
\* a raise lands in the except clause of lines 165-167
Render ==
    /\ pc = "render"
    /\ IF conv[md_files[idx]] = "render_error"
          THEN /\ ret' = "False"
               /\ stage' = [stage EXCEPT ![md_files[idx]] = "render_failed"]
               /\ pc' = "cleanup"
          ELSE /\ ret' = ret
               /\ stage' = [stage EXCEPT ![md_files[idx]] = "rendered"]
               /\ pc' = "write"
    /\ UNCHANGED <<env_vars, output_dir_exists, pdf, temp_dir_exists,
                   temp_html, md_files, idx, success_count, fail_count, exc,
                   run, call, log, counted, console, key_waits, exe_checks,
                   history>>

\* with open(temp_html_file, 'w') ... (lines 147-148); open raises
\* FileNotFoundError when temp_html is gone
WriteTemp ==
    /\ pc = "write"
    /\ IF temp_dir_exists
          THEN /\ temp_html' = temp_html \cup {md_files[idx]}
               /\ stage' = [stage EXCEPT ![md_files[idx]] = "written"]
               /\ ret' = ret
               /\ pc' = "paginate"
          ELSE /\ temp_html' = temp_html
               /\ stage' = [stage EXCEPT ![md_files[idx]] = "write_failed"]
               /\ ret' = "False"
               /\ pc' = "cleanup"
    /\ UNCHANGED <<env_vars, output_dir_exists, pdf, temp_dir_exists,
                   md_files, idx, success_count, fail_count, exc, run, call,
                   log, counted, console, key_waits, exe_checks, history>>

\* pdfkit.from_file(...) (lines 151-156)
Paginate ==
    /\ pc = "paginate"
    /\ LET i == md_files[idx]
           k == PdfName(i)
       IN /\ pdf' = [pdf EXCEPT ![k] = EngineWrites(conv[i], pdf[k])]
          /\ IF EngineRaises(conv[i])
                THEN /\ ret' = "False"
                     /\ stage' = [stage EXCEPT ![i] = "paginate_failed"]
                     /\ pc' = "cleanup"
                ELSE /\ ret' = ret
                     /\ stage' = [stage EXCEPT ![i] = "paginated"]
                     /\ pc' = "verify"
    /\ UNCHANGED <<env_vars, output_dir_exists, temp_dir_exists, temp_html,
                   md_files, idx, success_count, fail_count, exc, run, call,
                   log, counted, console, key_waits, exe_checks, history>>

\* the existence and size check and return True (lines 161-164)
Verify ==
    /\ pc = "verify"
    /\ LET i == md_files[idx]
       IN IF Verified(pdf[PdfName(i)])
             THEN /\ ret' = "True"
                  /\ stage' = [stage EXCEPT ![i] = "verified"]
             ELSE /\ ret' = "False"
                  /\ stage' = [stage EXCEPT ![i] = "verify_failed"]
    /\ pc' = "cleanup"
    /\ UNCHANGED <<env_vars, output_dir_exists, pdf, temp_dir_exists,
                   temp_html, md_files, idx, success_count, fail_count, exc,
                   run, call, log, counted, console, key_waits, exe_checks,
                   history>>

\* finally clause of convert_file (lines 168-171): an exception raised by
\* unlink replaces the pending return and leaves convert_all's loop
Cleanup ==
    /\ pc = "cleanup"
    /\ LET i == md_files[idx]
       IN IF CleanupNeeded(i)
             THEN IF unlink_ok[i]
                     THEN /\ temp_html' = temp_html \ {i}
                          /\ pc' = "count"
                          /\ UNCHANGED <<ret, exc>>
                     ELSE /\ temp_html' = temp_html
                          /\ ret' = "none"
                          /\ exc' = "OSError"
                          /\ pc' = "finally"
             ELSE /\ pc' = "count"
                  /\ UNCHANGED <<temp_html, ret, exc>>
    /\ UNCHANGED <<env_vars, output_dir_exists, pdf, temp_dir_exists,
                   md_files, idx, success_count, fail_count, run, call, log,
                   stage, counted, console, key_waits, exe_checks, history>>

\* if self.convert_file(md_file): ... else: ... (lines 193-196)
Count ==
    /\ pc = "count"
    /\ success_count' = SuccessAfter(ret, success_count)
    /\ fail_count' = FailAfter(ret, fail_count)
    /\ counted' = [counted EXCEPT ![md_files[idx]] =
                      IF ret = "True" THEN "success" ELSE "fail"]
    /\ idx' = idx + 1
    /\ pc' = "loop"
    /\ UNCHANGED <<env_vars, output_dir_exists, pdf, temp_dir_exists,
                   temp_html, md_files, ret, exc, run, call, log, stage,
                   console, key_waits, exe_checks, history>>

\* the prints after the loop (lines 198-201)
Summary ==
    /\ pc = "loop"
    /\ idx > Len(md_files)
    /\ console' = Append(console, Msg("summary", success_count, fail_count))
    /\ pc' = "finally"
    /\ UNCHANGED <<env_vars, output_dir_exists, pdf, temp_dir_exists,
                   temp_html, md_files, idx, success_count, fail_count, ret,
                   exc, run, call, log, stage, counted, key_waits,
                   exe_checks, history>>

\* finally clause of convert_all (lines 203-206)
ConvertAllFinally ==
    /\ pc = "finally"
    /\ IF temp_dir_exists
          THEN /\ temp_dir_exists' = FALSE
               /\ temp_html' = {}
          ELSE UNCHANGED <<temp_dir_exists, temp_html>>
    /\ pc' = IF exc = "none" THEN "returned" ELSE "main_except"
    /\ UNCHANGED <<env_vars, output_dir_exists, pdf, md_files, idx,
                   success_count, fail_count, ret, exc, run, call, log,
                   stage, counted, console, key_waits, exe_checks, history>>

Finished == [console |-> console, pdfs |-> PdfNames]

\* input("...") after convert_all returned (line 213)
MainWait ==
    /\ pc = "returned"
    /\ key_waits' = key_waits + 1
    /\ history' = Append(history, Finished)
    /\ pc' = "exited"
    /\ UNCHANGED <<env_vars, output_dir_exists, pdf, temp_dir_exists,
                   temp_html, md_files, idx, success_count, fail_count, ret,
                   exc, run, call, log, stage, counted, console, exe_checks>>

\* except Exception as e: print, input (lines 214-216)
MainExcept ==
    /\ pc = "main_except"
    /\ console' = Append(console, Msg("error", 0, 0))
    /\ key_waits' = key_waits + 1
    /\ history' = Append(history, [console |-> console', pdfs |-> PdfNames])
    /\ pc' = "exited"
    /\ UNCHANGED <<env_vars, output_dir_exists, pdf, temp_dir_exists,
                   temp_html, md_files, idx, success_count, fail_count, ret,
                   exc, run, call, log, stage, counted, exe_checks>>

\* the program is started again: a new process, the same file system
Restart ==
    /\ pc = "exited"
    /\ run < MaxRuns
    /\ run' = run + 1
    /\ pc' = "main"
    /\ md_files' = <<>>
    /\ idx' = 1
    /\ success_count' = 0
    /\ fail_count' = 0
    /\ ret' = "none"
    /\ exc' = "none"
    /\ call' = 0
    /\ log' = <<>>
    /\ stage' = NoStage
    /\ counted' = NoStage
    /\ console' = <<>>
    /\ key_waits' = 0
    /\ exe_checks' = 0
    /\ UNCHANGED <<env_vars, output_dir_exists, pdf, temp_dir_exists,
                   temp_html, history>>

\* a caller of the class calls convert_all again on the same object
CallAgain ==
    /\ pc = "returned"
    /\ call < MaxCalls
    /\ call' = call + 1
    /\ pc' = "convert_all"
    /\ UNCHANGED <<env_vars, output_dir_exists, pdf, temp_dir_exists,
                   temp_html, md_files, idx, success_count, fail_count, ret,
                   exc, run, log, stage, counted, console, key_waits,
                   exe_checks, history>>

Next ==
    \/ Construct
    \/ ConvertAllBegin
    \/ LoopNext
    \/ Render
    \/ WriteTemp
    \/ Paginate
    \/ Verify
    \/ Cleanup
    \/ Count
    \/ Summary
    \/ ConvertAllFinally
    \/ MainWait
    \/ MainExcept
    \/ Restart

NextApi == Next \/ CallAgain

\* the program as __main__ runs it
Spec == Init /\ [][Next]_vars

\* the class used by a caller that may call convert_all more than once
SpecApi == Init /\ [][NextApi]_vars

(***************************************************************************)
(* Properties                                                              *)
(***************************************************************************)

Inputs == 1..Len(md_files)

CountedAs(c) == {i \in Inputs : counted[md_files[i]] = c}

LoopFinished == pc = "loop" /\ idx > Len(md_files)

FailedStages == {"render_failed", "write_failed", "paginate_failed",
                 "verify_failed"}

IsSummary(m) == m.msg = "summary"

\* C1: while convert_all is in its loop every input handled so far has
\* incremented exactly one counter once, so when the loop finishes
\* success_count + fail_count equals the number of eligible documents.
C1_CountersSumToInputs ==
    pc = "loop" =>
        /\ success_count = Cardinality(CountedAs("success"))
        /\ fail_count = Cardinality(CountedAs("fail"))
        /\ CountedAs("success") \cup CountedAs("fail") = 1..(idx - 1)
        /\ success_count + fail_count = idx - 1
        /\ LoopFinished => success_count + fail_count = Len(md_files)

C1_Witness ==
    /\ LoopFinished
    /\ Len(md_files) >= 2
    /\ success_count >= 1
    /\ fail_count >= 1

\* C2: an input is counted as a success only after its output document was
\* checked to exist with non-zero size, and every input counted as success
\* has an existing non-empty output of its base name, also at the end of
\* the run.
C2_SuccessHasVerifiedOutput ==
    \A i \in Inputs :
        counted[md_files[i]] = "success" =>
            /\ stage[md_files[i]] = "verified"
            /\ pdf[PdfName(md_files[i])] = "nonempty"

C2_Witness ==
    /\ pc = "exited"
    /\ \E i \in Inputs : counted[md_files[i]] = "success"
    /\ \E i \in Inputs : /\ stage[md_files[i]] = "verify_failed"
                         /\ pdf[PdfName(md_files[i])] = "empty"

C4_TempDirGoneAtExit == pc = "exited" => ~temp_dir_exists

\* C5: two invocations in a row over the same inputs and the same converter
\* behaviour print the same success and failure counts, and leave the same
\* set of output file names.
C5_SecondRunSameResult ==
    \A r \in 2..Len(history) :
        /\ SelectSeq(history[r].console, IsSummary)
             = SelectSeq(history[r - 1].console, IsSummary)
        /\ history[r].pdfs = history[r - 1].pdfs

C5_Witness ==
    /\ Len(history) = 2
    /\ \E j \in 1..Len(history[2].console) :
         /\ history[2].console[j].msg = "summary"
         /\ history[2].console[j].a >= 1
         /\ history[2].console[j].b >= 1

\* C6: when the input directory does not exist convert_all returns without
\* raising, attempts no input, increments no counter and leaves every
\* output document as it was.
C6_MissingInputDir ==
    /\ []((~input_dir_exists /\ call >= 1) =>
            /\ exc = "none"
            /\ pc \in {"convert_all", "finally", "returned", "exited"}
            /\ log = <<>>
            /\ stage = NoStage
            /\ counted = NoStage
            /\ success_count = 0
            /\ fail_count = 0)
    /\ [][(~input_dir_exists) => pdf' = pdf]_vars

C6_Witness ==
    /\ ~input_dir_exists
    /\ pc = "returned"
    /\ console = <<Msg("no_input_dir", 0, 0)>>

\* C7: the executable is looked for exactly once, in the constructor and
\* before any scan; when it is absent convert_all is never called, nothing
\* is rendered, paginated or written, and the top-level handler prints the
\* error and waits for a key press.
C7_EngineCheckedAtStartup ==
    /\ [](/\ exe_checks = (IF pc = "main" THEN 0 ELSE 1)
          /\ call >= 1 => wkhtmltopdf_exists
          /\ (~wkhtmltopdf_exists) =>
                /\ pc \in {"main", "main_except", "exited"}
                /\ md_files = <<>>
                /\ log = <<>>
                /\ stage = NoStage
                /\ pc = "main_except" => exc = "FileNotFoundError"
                /\ pc = "exited" =>
                      /\ console = <<Msg("exe_missing", 0, 0),
                                     Msg("error", 0, 0)>>
                      /\ key_waits = 1)
    /\ [][(~wkhtmltopdf_exists) => pdf' = pdf]_vars

C7_Witness ==
    /\ ~wkhtmltopdf_exists
    /\ input_dir_exists
    /\ Len(conv) >= 1
    /\ pc = "exited"
    /\ key_waits = 1

\* C8: a failure of one input at any stage increments only the failure
\* counter and never stops the batch: at the end of a run that scanned
\* inputs every input was attempted exactly once, in order, and every
\* input that failed a stage is counted as a failure.
C8_FailureNeverStopsBatch ==
    (pc = "exited" /\ md_files # <<>>) =>
        /\ log = md_files
        /\ \A i \in Inputs :
              stage[md_files[i]] \in FailedStages
                  => counted[md_files[i]] = "fail"

\* C9: every call of convert_all starts with the output and temporary
\* directories present, so the temporary directory exists whenever
\* convert_file writes an intermediate document and no input fails because
\* it is missing.
C9_DirsPresentEachCall ==
    /\ pc = "convert_all" => (output_dir_exists /\ temp_dir_exists)
    /\ pc = "write" => temp_dir_exists
    /\ \A i \in Stems : stage[i] # "write_failed"

\* C10: a failure of the cleanup step does not replace the outcome already
\* determined: after the cleanup step convert_file reports the outcome it
\* had reached and convert_all counts it.
C10_CleanupKeepsOutcome ==
    [][pc = "cleanup" => (pc' = "count" /\ ret' = ret /\ exc' = exc)]_vars

====
